---- MODULE Spec2Model ----
(***************************************************************************)
(* Model of the prompt scheduling and execution engine of prisme-app:      *)
(* the PromptProvider context (collection of prompts, cold-start load and  *)
(* reconciliation, due-check passes, scheduled execution) together with    *)
(* the outcomes of the Perplexity query function it awaits.                *)
(*                                                                         *)
(* Time is the local wall clock in milliseconds since the local epoch.     *)
(* The clock moves over the instants that the eligibility rule can tell    *)
(* apart (ClockPoints) on the days InitDay..MaxDay.                        *)
(*                                                                         *)
(* Strings of the source that contain non-ASCII glyphs are written with    *)
(* the glyph spelled out between angle brackets.                           *)
(***************************************************************************)
EXTENDS Integers, Sequences, FiniteSets, TLC

----------------------------------------------------------------------------
(* Bounds of the model *)

\* ids of the prompts of the persisted collection
PromptIds == {1, 2}
\* number of calls of checkMissedScheduledPrompts (startup reconciliation,
\* timer, mount, refresh) that may be in flight at once
MaxPasses == 2
\* last calendar day the clock reaches; the process is started on day 2
MaxDay == 2

----------------------------------------------------------------------------
(* Program constants *)

\* 24 * 60 * 60 * 1000
DayMs == 86400000
\* Date.setHours(hour, minute, 0, 0): milliseconds in an hour / a minute
HourMs == 3600000
MinuteMs == 60000
\* isOldEnough: now - todayScheduled > 10000
GraceMs == 10000
\* setTimeout(() => savePrompts(prompts), 500)
DebounceMs == 500

\* the calendar day new Date(0) falls on
EpochDay == 0
\* the day on which the process is started; the day before it is the day of
\* the previous session
InitDay == EpochDay + 2

\* <<hour, minute>> of the schedules of the modelled prompts
SchedTimes == {<<14, 0>>}

\* response / source literals
RUNNING_RESPONSE == "<hourglass> Execution en cours..."
GENERATING_RESPONSE == "<hourglass> Generation en cours..."
SOURCE_PLANIFIE == "Planifie"
NoLastRun == <<>>
NoSchedule == [none |-> TRUE]
NoLastCheck == <<>>

----------------------------------------------------------------------------
(* Dates *)

\* Date.prototype.toISOString: the instant as a calendar day and the
\* milliseconds within it
ToISOString(t) == <<t \div DayMs, t % DayMs>>

\* new Date(isoString)
ParseDate(s) == s[1] * DayMs + s[2]

\* Date.prototype.toDateString: the local calendar day of an instant
ToDateString(t) == t \div DayMs

\* const d = new Date(); d.setHours(hour, minute, 0, 0) evaluated at `now`
SetHours(now, hour, minute) ==
    (now \div DayMs) * DayMs + hour * HourMs + minute * MinuteMs

\* String.prototype.startsWith("<hourglass>")
StartsWithHourglass(s) == s \in {RUNNING_RESPONSE, GENERATING_RESPONSE}

----------------------------------------------------------------------------
(* The AI query collaborator: fetchAiResponseWithSources never rejects;    *)
(* every failure is turned into a result object whose response is the      *)
(* message for the user.                                                   *)

AiOutcomes == {"ok", "auth", "rateLimit", "timeout", "server", "empty"}
AiFailures == AiOutcomes \ {"ok"}

\* the outcomes drawn where calls may overlap: an answer, an error that comes
\* back with an error source, an empty payload
SampledOutcomes == {"ok", "timeout", "empty"}

AiResult(o) ==
    CASE o = "ok"        -> [response |-> "answer", sourcesFormatted |-> "Perplexity"]
      [] o = "auth"      -> [response |-> "<lock> Probleme d'authentification.",
                             sourcesFormatted |-> "Erreur d'authentification"]
      [] o = "rateLimit" -> [response |-> "<light> Limite de taux Perplexity atteinte.",
                             sourcesFormatted |-> "Rate limit"]
      [] o = "timeout"   -> [response |-> "<timer> Delai d'attente depasse.",
                             sourcesFormatted |-> "Timeout"]
      [] o = "server"    -> [response |-> "<wrench> Probleme temporaire du serveur Perplexity.",
                             sourcesFormatted |-> "Erreur serveur"]
      [] o = "empty"     -> [response |-> "Desole, je n'ai pas pu generer une reponse.",
                             sourcesFormatted |-> "Perplexity"]

----------------------------------------------------------------------------
(* Prompts *)

Undefined == "undefined"

\* a selection that takes every scheduled prompt for a recurring one
OrTrueIgnoringValue(v) == TRUE

\* isRecurring ?? true, for an isRecurring of "true", "false" or Undefined
OrTrue(v) == IF v = Undefined THEN TRUE ELSE v = "true"

\* a migration that puts every prompt in "other"
CategoryAlwaysOther(c) == "other"

\* prompt.category || "other"
CategoryOrOther(c) == IF c = Undefined \/ c = "" THEN "other" ELSE c

Schedule(hm, lastRun, isRecurring) ==
    [hour |-> hm[1], minute |-> hm[2], lastRun |-> lastRun,
     isRecurring |-> isRecurring]

IsScheduled(p) == p.scheduled # NoSchedule

\* the instants of a day that the eligibility rule tells apart: a minute
\* before a scheduled time, the time itself, the end of the grace, the first
\* instant after it, and an hour later
DayOffsets ==
    UNION { LET t == hm[1] * HourMs + hm[2] * MinuteMs
                     IN  {t - MinuteMs, t, t + GraceMs, t + GraceMs + 1,
                          t + HourMs}
                     : hm \in SchedTimes }

ClockPoints == { d * DayMs + o : d \in InitDay..MaxDay, o \in DayOffsets }

\* an instant of the previous session, after every schedule of that day
PreviousRun == ToISOString((InitDay - 1) * DayMs + 23 * HourMs)

\* what the previous session can have left in the store for one prompt:
\* never run, run on the previous day, or killed while the run of the
\* previous day was in flight (sentinel and optimistic lastRun persisted)
StoredStates ==
    { [response |-> "", source |-> SOURCE_PLANIFIE, lastRun |-> NoLastRun],
      [response |-> "answer", source |-> "Perplexity", lastRun |-> PreviousRun],
      [response |-> RUNNING_RESPONSE, source |-> SOURCE_PLANIFIE,
       lastRun |-> PreviousRun] }

StoredPrompts(i) ==
    { [id |-> i, response |-> st.response, source |-> st.source,
       updatedAt |-> PreviousRun, category |-> "other",
       scheduled |-> Schedule(hm, st.lastRun, rec)]
      : st \in StoredStates, hm \in SchedTimes, rec \in {"true", "false"} }
    \cup
    \* a record of an older schema: no isRecurring, no category
    { [id |-> i, response |-> "", source |-> SOURCE_PLANIFIE,
       updatedAt |-> PreviousRun, category |-> Undefined,
       scheduled |-> Schedule(hm, NoLastRun, Undefined)] : hm \in SchedTimes }

StoredCollections ==
    UNION { { s \in [1..n -> UNION { StoredPrompts(i) : i \in 1..n }] :
                \A i \in 1..n : s[i].id = i } : n \in 0..Cardinality(PromptIds) }

----------------------------------------------------------------------------
(* checkMissedScheduledPrompts: the eligibility rule *)

\* const isScheduledTimeInPast = todayScheduled < now
IsScheduledTimeInPast(todayScheduled, now) == todayScheduled < now

\* const actualLastRun = lastRun ? new Date(lastRun) : new Date(0)
ActualLastRun(lastRun) ==
    IF lastRun = NoLastRun THEN EpochDay * DayMs ELSE ParseDate(lastRun)

\* the last run compared with the instant of the pass, not with its day
WasNotExecutedAtThisInstant(lastRun, now) == ActualLastRun(lastRun) # now

\* the day of the last run compared with <= where the code has !==
WasNotExecutedAfterToday(lastRun, now) ==
    ToDateString(ActualLastRun(lastRun)) <= ToDateString(now)

\* a prompt that has run once counts as executed for ever
WasNeverExecuted(lastRun, now) == lastRun = NoLastRun

\* const wasNotExecutedToday = actualLastRun.toDateString() !== today
WasNotExecutedToday(lastRun, now) ==
    ToDateString(ActualLastRun(lastRun)) # ToDateString(now)

\* const isNotCurrentlyExecuting = !prompt.response.startsWith("<hourglass>")
IsNotCurrentlyExecuting(p) == ~StartsWithHourglass(p.response)

\* a selection without the 10 s of grace
IsOldEnoughWithoutGrace(todayScheduled, now) == now - todayScheduled >= 0

\* const isOldEnough = now.getTime() - todayScheduled.getTime() > 10000
IsOldEnough(todayScheduled, now) == now - todayScheduled > GraceMs

\* the body of the first loop: does the prompt go into missedPrompts
IsMissed(p, now) ==
    /\ IsScheduled(p)
    /\ OrTrue(p.scheduled.isRecurring)
    /\ LET todayScheduled == SetHours(now, p.scheduled.hour, p.scheduled.minute)
       IN  /\ IsScheduledTimeInPast(todayScheduled, now)
           /\ WasNotExecutedToday(p.scheduled.lastRun, now)
           /\ IsNotCurrentlyExecuting(p)
           /\ IsOldEnough(todayScheduled, now)

\* What the second loop reads of a prompt object of the snapshot: its id (and,
\* through executeScheduledPrompt, its question and the fact that it has a
\* schedule) and, through promptsToCheck.find, its response. The objects of
\* the snapshot are never modified (setPrompts builds new ones) and find
\* returns the object the loop is at.
StaleRef(p) == [id |-> p.id, response |-> p.response]

\* const currentPrompt = promptsToCheck.find((p) => p.id === prompt.id);
\* if (currentPrompt && !currentPrompt.response.startsWith("<hourglass>"))
PassesLastCheck(currentPrompt) == ~StartsWithHourglass(currentPrompt.response)

\* index of the first prompt of the queue that the second loop executes,
\* 0 when it executes none
FirstToExecute(queue) ==
    LET ok == { k \in DOMAIN queue : PassesLastCheck(queue[k]) }
    IN  IF ok = {} THEN 0 ELSE CHOOSE k \in ok : \A j \in ok : k <= j

\* a stored value that JSON.parse rejects
CorruptStore == <<[corrupt |-> TRUE]>>

\* for (const prompt of promptsToCheck) { ... missedPrompts.push(prompt) }
RECURSIVE MissedPrompts(_, _)
MissedPrompts(promptsToCheck, now) ==
    IF promptsToCheck = <<>> THEN <<>>
    ELSE (IF IsMissed(Head(promptsToCheck), now)
          THEN <<StaleRef(Head(promptsToCheck))>> ELSE <<>>)
         \o MissedPrompts(Tail(promptsToCheck), now)

\* const lastCheck = lastCheckStr ? new Date(lastCheckStr)
\*                                : new Date(Date.now() - 24 * 60 * 60 * 1000)
LastCheck(lastCheckStr, now) ==
    IF lastCheckStr = NoLastCheck THEN now - DayMs ELSE ParseDate(lastCheckStr)

\* a selection that keeps the prompts whose time of today comes after the
\* last check
SelectedSinceLastCheck(promptsToCheck, lastCheck, now) ==
    MissedPrompts(SelectSeq(promptsToCheck,
                      LAMBDA p : /\ IsScheduled(p)
                                 /\ SetHours(now, p.scheduled.hour,
                                             p.scheduled.minute) > lastCheck),
                  now)

\* missedPrompts as checkMissedScheduledPrompts computes it once lastCheck is
\* known: lastCheck goes to console.log and nowhere else
SelectedSince(promptsToCheck, lastCheck, now) ==
    MissedPrompts(promptsToCheck, now)

----------------------------------------------------------------------------
(* executeScheduledPrompt: the updates of the collection *)

\* first setPrompts: the in-progress sentinel and the optimistic lastRun
MarkRunning(ps, id, now) ==
    [i \in DOMAIN ps |->
        IF ps[i].id = id
        THEN [ps[i] EXCEPT !.response = RUNNING_RESPONSE,
                           !.scheduled.lastRun = ToISOString(now)]
        ELSE ps[i]]

\* a result write that stamps updatedAt on every prompt of the collection
WriteResultTouchingAll(ps, id, result, completionTime) ==
    [i \in DOMAIN ps |->
        IF ps[i].id = id
        THEN [ps[i] EXCEPT !.response = result.response,
                           !.source = result.sourcesFormatted,
                           !.updatedAt = ToISOString(completionTime),
                           !.scheduled.lastRun = ToISOString(completionTime)]
        ELSE [ps[i] EXCEPT !.updatedAt = ToISOString(completionTime)]]

\* second setPrompts: the result of fetchAiResponseWithSources
WriteResult(ps, id, result, completionTime) ==
    [i \in DOMAIN ps |->
        IF ps[i].id = id
        THEN [ps[i] EXCEPT !.response = result.response,
                           !.source = result.sourcesFormatted,
                           !.updatedAt = ToISOString(completionTime),
                           !.scheduled.lastRun = ToISOString(completionTime)]
        ELSE ps[i]]

\* loadedPrompts.map((prompt) => ({...prompt, category: prompt.category || "other"}))
Migrate(ps) ==
    [i \in DOMAIN ps |-> [ps[i] EXCEPT !.category = CategoryOrOther(@)]]

----------------------------------------------------------------------------
(* State *)

\* the calls of checkMissedScheduledPrompts that are in flight: the startup
\* reconciliation (caller "load") and calls of checkAndRunScheduledPrompts
\* (caller "tick")
PassIds == 1..MaxPasses

VARIABLES
    clock,              \* Date.now(), local milliseconds
    store,              \* AsyncStorage "prompts"
    lastScheduleCheck,  \* AsyncStorage "lastScheduleCheck"
    prompts,            \* useState: the in-memory collection
    isInitialized,      \* isInitializedRef.current
    loadPc,             \* position of loadPromptsAndCheckMissed
    pass,               \* the running calls of checkMissedScheduledPrompts
    hist,               \* history of each running pass (not program state)
    started,            \* history: <<id, day>> of the AI queries started
    saveTimer,          \* the timeout of the debounced save effect
    ui,                 \* what the screens hold: the prompt being edited,
                        \* the open confirmation dialog, the immediate
                        \* prompts whose query is awaited
    status,             \* useState: isLoading, error, notificationsEnabled
    reloadPc,           \* position of the loadPromptsAndCheckMissed that
                        \* the load effect calls when it runs again
    call,               \* history: the arguments of the last addPrompt
    http                \* the AI module: lastRequestTime and the calls of
                        \* withRetry in flight

vars == <<clock, store, lastScheduleCheck, prompts, isInitialized, loadPc,
          pass, hist, started, saveTimer, ui, status,
          reloadPc, call, http>>

\* the live locals of one call of checkMissedScheduledPrompts: the snapshot
\* promptsToCheck until the selection, then the rest of missedPrompts and
\* the id of the prompt whose executeScheduledPrompt is awaited
IdlePass ==
    [pc |-> "idle", caller |-> "tick", promptsToCheck |-> <<>>,
     missedPrompts |-> <<>>, executing |-> 0]

\* checkMissedScheduledPrompts(promptsToCheck) up to its first await
CalledPass(caller, promptsToCheck) ==
    [pc |-> "getLastCheck", caller |-> caller,
     promptsToCheck |-> promptsToCheck, missedPrompts |-> <<>>,
     executing |-> 0]

\* checkMissedScheduledPrompts has returned: to loadPromptsAndCheckMissed,
\* which goes on, or to checkAndRunScheduledPrompts, which returns too
ReturnedPass(caller) ==
    IF caller \in {"load", "reload"}
    THEN [IdlePass EXCEPT !.pc = "done", !.caller = caller]
    ELSE IdlePass

\* history of a running pass: the <<id, day>> queries started before it was
\* invoked, the ids it selected, the <<id, day>> queries it started and the
\* ids whose query came back as a failure
NoHist == [seen |-> {}, selected |-> {}, executed |-> {}, failed |-> {}]

Today == ToDateString(clock)

IsActive(x) == pass[x].pc \in {"getLastCheck", "fetching", "delay"}
IsFree(x) == pass[x].pc = "idle"

\* the calls are interchangeable: a new one takes the lowest free slot
LowestFree(x) == IsFree(x) /\ \A y \in PassIds : y < x => ~IsFree(y)

\* the element of a collection with a given id
Find(ps, id) == ps[CHOOSE i \in DOMAIN ps : ps[i].id = id]

\* error: null
Null == "null"

\* useState(true) for isLoading, useState(null) for error, useState(false)
\* for notificationsEnabled
InitStatus == [isLoading |-> TRUE, error |-> Null,
               notificationsEnabled |-> FALSE]

\* addPrompt has not been called: no question, no call counted
NoCall == [question |-> <<>>, count |-> 0]

\* the number of calls of withRetry that can be in flight together
MaxCalls == 2

CallIds == 1..MaxCalls

\* no call of withRetry in this slot
IdleCall == [pc |-> "idle", attempt |-> 0, wakeAt |-> 0]

\* let lastRequestTime = 0; no call of withRetry is in flight
IdleHttp == [lastRequestTime |-> 0, calls |-> [c \in CallIds |-> IdleCall]]

\* no prompt is being edited (editingPrompt is null)
NoEdit == [none |-> TRUE]

\* ManagePrompts has no edit modal open, no confirmation dialog is shown and
\* no addPrompt awaits its query; `operations` counts what the user has
\* started (not program state)
NoUi == [editingPrompt |-> NoEdit, dialogOpen |-> FALSE, dialogPrompts |-> <<>>,
         adding |-> <<>>, operations |-> 0]

Init ==
    /\ clock \in ClockPoints /\ ToDateString(clock) = InitDay
    /\ store \in StoredCollections
    /\ lastScheduleCheck \in {NoLastCheck, PreviousRun}
    /\ prompts = <<>>
    /\ isInitialized = FALSE
    /\ loadPc = "start"
    /\ pass = [x \in PassIds |-> IdlePass]
    /\ hist = [x \in PassIds |-> NoHist]
    /\ started = {}
    /\ saveTimer = "idle"
    /\ ui = NoUi
    /\ status = InitStatus
    /\ reloadPc = "none"
    /\ call = NoCall
    /\ http = IdleHttp

----------------------------------------------------------------------------
(* Actions *)

\* The debounced save effect, run after a setPrompts: the cleanup clears the
\* pending timeout and, once the provider is initialised, a new timeout of
\* 500 ms is set; before that the effect returns without setting one.
SaveEffect ==
    saveTimer' = IF isInitialized THEN "armed" ELSE "idle"

\* The second loop of checkMissedScheduledPrompts, from the head of `queue`
\* up to its next await: it skips the prompts that fail the last check and,
\* for the first one that passes, runs executeScheduledPrompt up to the
\* await of fetchAiResponseWithSources (the sentinel and the optimistic
\* lastRun are set, the query is issued); with nothing left the pass returns.
\* h is the history of the pass so far.
RunLoop(x, queue, h) ==
    LET k == FirstToExecute(queue)
    IN  IF k = 0
        THEN /\ pass' = [pass EXCEPT ![x] = ReturnedPass(pass[x].caller)]
             /\ hist' = [hist EXCEPT ![x] = NoHist]
             /\ UNCHANGED <<prompts, started, saveTimer>>
        ELSE /\ prompts' = MarkRunning(prompts, queue[k].id, clock)
             /\ SaveEffect
             /\ pass' = [pass EXCEPT ![x] =
                            [pc |-> "fetching", caller |-> pass[x].caller,
                             promptsToCheck |-> <<>>,
                             missedPrompts |-> SubSeq(queue, k + 1, Len(queue)),
                             executing |-> queue[k].id]]
             /\ hist' = [hist EXCEPT ![x] =
                            [h EXCEPT !.executed = @ \cup {<<queue[k].id, Today>>}]]
             /\ started' = started \cup {<<queue[k].id, Today>>}

\* loadPromptsAndCheckMissed up to the first await of the reconciliation:
\* read and migrate the stored prompts, setPrompts, call
\* checkMissedScheduledPrompts(loadedPrompts)
LoadPrompts(x) ==
    /\ loadPc = "start"
    /\ ~isInitialized
    /\ store # CorruptStore
    /\ LowestFree(x)
    /\ loadPc' = "recon"
    /\ prompts' = Migrate(store)
    /\ pass' = [pass EXCEPT ![x] = CalledPass("load", Migrate(store))]
    /\ hist' = [hist EXCEPT ![x] = [NoHist EXCEPT !.seen = started]]
    /\ SaveEffect
    /\ UNCHANGED <<clock, store, lastScheduleCheck, isInitialized, started>>
    /\ UNCHANGED ui
    /\ status' = [status EXCEPT !.isLoading = TRUE, !.error = Null]
    /\ UNCHANGED <<call, http>>
    /\ UNCHANGED reloadPc

\* loadPromptsAndCheckMissed after the reconciliation has returned: write
\* the timestamp of this check and mark the provider initialised
LoadFinish(x) ==
    /\ loadPc = "recon"
    /\ pass[x].pc = "done"
    /\ pass[x].caller = "load"
    /\ loadPc' = "done"
    /\ lastScheduleCheck' = ToISOString(clock)
    /\ isInitialized' = TRUE
    /\ pass' = [pass EXCEPT ![x] = IdlePass]
    /\ UNCHANGED <<clock, store, prompts, hist, started, saveTimer>>
    /\ UNCHANGED ui
    /\ status' = [status EXCEPT !.isLoading = FALSE]
    /\ UNCHANGED <<call, http>>
    /\ UNCHANGED reloadPc

\* checkAndRunScheduledPrompts (60 s timer, HomeScreen effect, pull to
\* refresh): checkMissedScheduledPrompts(prompts) up to its first await
StartPass(x) ==
    /\ LowestFree(x)
    /\ pass' = [pass EXCEPT ![x] = CalledPass("tick", prompts)]
    /\ hist' = [hist EXCEPT ![x] = [NoHist EXCEPT !.seen = started]]
    /\ UNCHANGED <<clock, store, lastScheduleCheck, prompts, isInitialized,
                   loadPc, started, saveTimer>>
    /\ UNCHANGED ui
    /\ UNCHANGED status
    /\ UNCHANGED <<call, http>>
    /\ UNCHANGED reloadPc

\* AsyncStorage.getItem(LAST_CHECK_KEY) resolves: the pass computes
\* lastCheck (which it only logs), selects the missed prompts and enters
\* the second loop
SelectMissed(x) ==
    /\ pass[x].pc = "getLastCheck"
    /\ LET now == clock
           lastCheck == LastCheck(lastScheduleCheck, now)
           missedPrompts == SelectedSince(pass[x].promptsToCheck, lastCheck, now)
       IN  RunLoop(x, missedPrompts,
                   [hist[x] EXCEPT !.selected =
                       { missedPrompts[j].id : j \in DOMAIN missedPrompts }])
    /\ UNCHANGED <<clock, store, lastScheduleCheck, isInitialized, loadPc>>
    /\ UNCHANGED ui
    /\ UNCHANGED status
    /\ UNCHANGED <<call, http>>
    /\ UNCHANGED reloadPc

\* a failure of the query that would leave the second loop: the error is
\* written to the prompt and the rest of missedPrompts is dropped
FetchResolveAborting(x, o) ==
    /\ pass[x].pc = "fetching"
    /\ prompts' = WriteResult(prompts, pass[x].executing, AiResult(o), clock)
    /\ pass' = [pass EXCEPT ![x].pc = "delay", ![x].executing = 0,
                            ![x].missedPrompts =
                                IF o \in AiFailures THEN <<>> ELSE @]
    /\ hist' = [hist EXCEPT ![x].failed =
                    IF o \in AiFailures THEN @ \cup {pass[x].executing} ELSE @]
    /\ SaveEffect
    /\ UNCHANGED <<clock, store, lastScheduleCheck, isInitialized, loadPc,
                   started>>
    /\ UNCHANGED ui
    /\ UNCHANGED status
    /\ UNCHANGED <<call, http>>
    /\ UNCHANGED reloadPc

\* a second loop without its 2 s delay: as soon as the query of a prompt has
\* resolved, the query of the next prompt of missedPrompts is issued
FetchResolveNoDelay(x, o) ==
    /\ pass[x].pc = "fetching"
    /\ LET written == WriteResult(prompts, pass[x].executing, AiResult(o), clock)
           queue == pass[x].missedPrompts
       IN  IF queue = <<>>
           THEN /\ prompts' = written
                /\ pass' = [pass EXCEPT ![x].pc = "delay", ![x].executing = 0]
                /\ UNCHANGED <<hist, started>>
           ELSE /\ prompts' = MarkRunning(written, Head(queue).id, clock)
                /\ pass' = [pass EXCEPT ![x].executing = Head(queue).id,
                                        ![x].missedPrompts = Tail(queue)]
                /\ hist' = [hist EXCEPT ![x].executed =
                                @ \cup {<<Head(queue).id, Today>>}]
                /\ started' = started \cup {<<Head(queue).id, Today>>}
    /\ SaveEffect
    /\ UNCHANGED <<clock, store, lastScheduleCheck, isInitialized, loadPc>>
    /\ UNCHANGED ui
    /\ UNCHANGED status
    /\ UNCHANGED <<call, http>>
    /\ UNCHANGED reloadPc

\* fetchAiResponseWithSources resolves with outcome o: executeScheduledPrompt
\* writes the result, returns, and the pass starts its 2 s delay
FetchResolve(x, o) ==
    /\ pass[x].pc = "fetching"
    /\ prompts' = WriteResult(prompts, pass[x].executing, AiResult(o), clock)
    /\ pass' = [pass EXCEPT ![x].pc = "delay", ![x].executing = 0]
    /\ hist' = [hist EXCEPT ![x].failed =
                    IF o \in AiFailures THEN @ \cup {pass[x].executing} ELSE @]
    /\ SaveEffect
    /\ UNCHANGED <<clock, store, lastScheduleCheck, isInitialized, loadPc,
                   started>>
    /\ UNCHANGED ui
    /\ UNCHANGED status
    /\ UNCHANGED <<call, http>>
    /\ UNCHANGED reloadPc

\* the 2 s timeout between two executions elapses
DelayElapsed(x) ==
    /\ pass[x].pc = "delay"
    /\ RunLoop(x, pass[x].missedPrompts, hist[x])
    /\ UNCHANGED <<clock, store, lastScheduleCheck, isInitialized, loadPc>>
    /\ UNCHANGED ui
    /\ UNCHANGED status
    /\ UNCHANGED <<call, http>>
    /\ UNCHANGED reloadPc

\* the timeout of the save effect elapses: savePrompts(prompts)
SaveFires ==
    /\ saveTimer = "armed"
    /\ saveTimer' = "idle"
    /\ store' = prompts
    /\ UNCHANGED <<clock, lastScheduleCheck, prompts, isInitialized, loadPc,
                   pass, hist, started>>
    /\ UNCHANGED ui
    /\ status' = [status EXCEPT !.error = Null]
    /\ UNCHANGED <<call, http>>
    /\ UNCHANGED reloadPc

\* time passes, up to the next instant of `points`; a pending save fires
\* before 500 ms have passed
TickTo(points) ==
    /\ \E t \in points : t > clock
    /\ \A x \in PassIds : pass[x].pc # "getLastCheck"
    /\ clock' = CHOOSE t \in points :
                    t > clock /\ \A u \in points : u > clock => t <= u
    /\ saveTimer = "armed" => clock' - clock < DebounceMs
    /\ UNCHANGED <<store, lastScheduleCheck, prompts, isInitialized, loadPc,
                   pass, hist, started, saveTimer>>
    /\ UNCHANGED ui
    /\ UNCHANGED status
    /\ UNCHANGED <<call, http>>
    /\ UNCHANGED reloadPc

Tick == TickTo(ClockPoints)

\* Nothing of the sessions below reads the store after the load, and the
\* save only writes the store and the timer: letting a pending save fire
\* before the next step of the session leaves what these sessions do with
\* the collection as it is.
SaveSettled == saveTimer = "idle"

Next ==
    \/ \E x \in PassIds : SaveSettled /\ LoadPrompts(x)
    \/ \E x \in PassIds : SaveSettled /\ LoadFinish(x)
    \/ \E x \in PassIds : SaveSettled /\ StartPass(x)
    \/ \E x \in PassIds : SaveSettled /\ SelectMissed(x)
    \/ \E x \in PassIds, o \in SampledOutcomes :
            SaveSettled /\ FetchResolve(x, o)
    \/ \E x \in PassIds : SaveSettled /\ DelayElapsed(x)
    \/ SaveFires
    \/ SaveSettled /\ Tick

Spec == Init /\ [][Next]_vars

\* The same program when the calls of checkMissedScheduledPrompts follow one
\* another: a call is made only when no other one is in flight.
NoPassInFlight == \A x \in PassIds : ~IsActive(x)

NextSolo ==
    \/ \E x \in PassIds : SaveSettled /\ NoPassInFlight /\ LoadPrompts(x)
    \/ \E x \in PassIds : SaveSettled /\ LoadFinish(x)
    \/ \E x \in PassIds : SaveSettled /\ NoPassInFlight /\ StartPass(x)
    \/ \E x \in PassIds : SaveSettled /\ SelectMissed(x)
    \/ \E x \in PassIds, o \in AiOutcomes :
            SaveSettled /\ FetchResolve(x, o)
    \/ \E x \in PassIds : SaveSettled /\ DelayElapsed(x)
    \/ SaveFires
    \/ SaveSettled /\ Tick

SpecSolo == Init /\ [][NextSolo]_vars

\* The operating system kills the process and the application is started
\* again: what was in memory is gone, the store and the clock stay.
Kill ==
    /\ prompts' = <<>>
    /\ isInitialized' = FALSE
    /\ loadPc' = "start"
    /\ pass' = [x \in PassIds |-> IdlePass]
    /\ hist' = [x \in PassIds |-> NoHist]
    /\ saveTimer' = "idle"
    /\ UNCHANGED <<clock, store, lastScheduleCheck, started>>
    /\ ui' = NoUi
    /\ status' = InitStatus
    /\ call' = NoCall
    /\ http' = IdleHttp
    /\ reloadPc' = "none"

\* the process is killed after it has been idle for more than the 500 ms of
\* the debounce: the startup has finished, no call of
\* checkMissedScheduledPrompts is in flight and no save is pending
KillSettled ==
    /\ loadPc = "done"
    /\ \A x \in PassIds : IsFree(x)
    /\ SaveSettled
    /\ Kill

\* Sessions that follow one another: the calls are made one at a time as in
\* SpecSolo, and the process may be killed, when settled, and started again.
NextSession ==
    \/ \E x \in PassIds : SaveSettled /\ NoPassInFlight /\ LoadPrompts(x)
    \/ \E x \in PassIds : SaveSettled /\ LoadFinish(x)
    \/ \E x \in PassIds : SaveSettled /\ NoPassInFlight /\ StartPass(x)
    \/ \E x \in PassIds : SaveSettled /\ SelectMissed(x)
    \/ \E x \in PassIds, o \in SampledOutcomes :
            SaveSettled /\ FetchResolve(x, o)
    \/ \E x \in PassIds : SaveSettled /\ DelayElapsed(x)
    \/ SaveFires
    \/ SaveSettled /\ Tick
    \/ KillSettled

SpecSession == Init /\ [][NextSession]_vars

\* The program started over a stored collection of at most one prompt, the
\* calls overlapping as in Spec.
InitSingle == Init /\ Len(store) <= 1

SpecSingle == InitSingle /\ [][Next]_vars

----------------------------------------------------------------------------
(* The cold start: stored values of every kind, the notification           *)
(* permission, the load effect running again                               *)

LOAD_ERROR == "Erreur lors du chargement des donnees"

\* a load that fails without its finally block: isLoading stays true
LoadFailsStillLoading ==
    /\ loadPc = "start"
    /\ ~isInitialized
    /\ store = CorruptStore
    /\ loadPc' = "failed"
    /\ status' = [status EXCEPT !.error = LOAD_ERROR]
    /\ UNCHANGED <<clock, store, lastScheduleCheck, prompts, isInitialized,
                   pass, hist, started, saveTimer, ui, reloadPc, call, http>>

\* loadPromptsAndCheckMissed when JSON.parse throws: the catch block sets
\* the error, the finally block clears isLoading; nothing else has run
LoadFails ==
    /\ loadPc = "start"
    /\ ~isInitialized
    /\ store = CorruptStore
    /\ loadPc' = "failed"
    /\ status' = [status EXCEPT !.error = LOAD_ERROR, !.isLoading = FALSE]
    /\ UNCHANGED <<clock, store, lastScheduleCheck, prompts, isInitialized,
                   pass, hist, started, saveTimer, ui, reloadPc, call, http>>

\* requestNotificationPermissions, awaited first by loadPromptsAndCheckMissed,
\* finds the permission granted: setNotificationsEnabled(true). The render
\* gives scheduleNotification a new identity, the load effect runs again and
\* calls loadPromptsAndCheckMissed a second time (isInitializedRef.current
\* is false: setIsLoading(true), setError(null), the await of the
\* permissions).
PermissionGranted ==
    /\ loadPc = "start"
    /\ ~isInitialized
    /\ ~status.notificationsEnabled
    /\ status' = [isLoading |-> TRUE, error |-> Null,
                  notificationsEnabled |-> TRUE]
    /\ reloadPc' = "start"
    /\ UNCHANGED <<clock, store, lastScheduleCheck, prompts, isInitialized,
                   loadPc, pass, hist, started, saveTimer, ui, call, http>>

\* the second loadPromptsAndCheckMissed, after the first one has read the
\* store: it reads and migrates the stored prompts, setPrompts, calls
\* checkMissedScheduledPrompts(loadedPrompts)
LoadAgain(x) ==
    /\ reloadPc = "start"
    /\ loadPc # "start"
    /\ store # CorruptStore
    /\ LowestFree(x)
    /\ reloadPc' = "recon"
    /\ prompts' = Migrate(store)
    /\ pass' = [pass EXCEPT ![x] = CalledPass("reload", Migrate(store))]
    /\ hist' = [hist EXCEPT ![x] = [NoHist EXCEPT !.seen = started]]
    /\ SaveEffect
    /\ UNCHANGED <<clock, store, lastScheduleCheck, isInitialized, loadPc,
                   started, ui, status, call, http>>

\* the second loadPromptsAndCheckMissed when JSON.parse throws
ReloadFails ==
    /\ reloadPc = "start"
    /\ loadPc # "start"
    /\ store = CorruptStore
    /\ reloadPc' = "failed"
    /\ status' = [status EXCEPT !.error = LOAD_ERROR, !.isLoading = FALSE]
    /\ UNCHANGED <<clock, store, lastScheduleCheck, prompts, isInitialized,
                   loadPc, pass, hist, started, saveTimer, ui, call, http>>

\* the second loadPromptsAndCheckMissed after its reconciliation has
\* returned
ReloadFinish(x) ==
    /\ reloadPc = "recon"
    /\ pass[x].pc = "done"
    /\ pass[x].caller = "reload"
    /\ reloadPc' = "done"
    /\ lastScheduleCheck' = ToISOString(clock)
    /\ isInitialized' = TRUE
    /\ status' = [status EXCEPT !.isLoading = FALSE]
    /\ pass' = [pass EXCEPT ![x] = IdlePass]
    /\ UNCHANGED <<clock, store, prompts, loadPc, hist, started, saveTimer,
                   ui, call, http>>

\* the categories found in the store: absent, empty, the default, another
StoredCategories == {Undefined, "", "other", "tech"}

\* what the store can hold at a cold start: nothing, one prompt of any
\* stored kind and category, or a value that does not parse
LoadStores ==
    {<<>>, CorruptStore} \cup
    { <<[p EXCEPT !.category = c]>> : p \in StoredPrompts(1),
                                      c \in StoredCategories }

InitLoad ==
    /\ clock \in ClockPoints /\ ToDateString(clock) = InitDay
    /\ store \in LoadStores
    /\ lastScheduleCheck \in {NoLastCheck, PreviousRun}
    /\ prompts = <<>>
    /\ isInitialized = FALSE
    /\ loadPc = "start"
    /\ pass = [x \in PassIds |-> IdlePass]
    /\ hist = [x \in PassIds |-> NoHist]
    /\ started = {}
    /\ saveTimer = "idle"
    /\ ui = NoUi
    /\ status = InitStatus
    /\ reloadPc = "none"
    /\ call = NoCall
    /\ http = IdleHttp

\* The cold start with or without the permission; the calls of
\* checkAndRunScheduledPrompts are made when no pass is in flight.
NextLoad ==
    \/ SaveSettled /\ PermissionGranted
    \/ \E x \in PassIds : SaveSettled /\ LoadPrompts(x)
    \/ SaveSettled /\ LoadFails
    \/ \E x \in PassIds : SaveSettled /\ LoadFinish(x)
    \/ \E x \in PassIds : SaveSettled /\ LoadAgain(x)
    \/ SaveSettled /\ ReloadFails
    \/ \E x \in PassIds : SaveSettled /\ ReloadFinish(x)
    \/ \E x \in PassIds : SaveSettled /\ NoPassInFlight /\ StartPass(x)
    \/ \E x \in PassIds : SaveSettled /\ SelectMissed(x)
    \/ \E x \in PassIds, o \in SampledOutcomes :
            SaveSettled /\ FetchResolve(x, o)
    \/ \E x \in PassIds : SaveSettled /\ DelayElapsed(x)
    \/ SaveFires
    \/ SaveSettled /\ Tick

SpecLoad == InitLoad /\ [][NextLoad]_vars

----------------------------------------------------------------------------
(* The AI module: withRetry and the spacing of the requests *)

\* const MIN_REQUEST_INTERVAL = 2000
MIN_REQUEST_INTERVAL == 2000

\* maxRetries: number = 3, baseDelay: number = 2000
MaxRetries == 3
BaseDelay == 2000

\* const rateLimitDelays = [10000, 30000, 60000]
RateLimitDelays == <<10000, 30000, 60000>>

\* the ways a request fails: 401 or 403, 429, anything else
RequestFailures == {"definitive", "rateLimit", "other"}

\* Math.pow(2, n)
RECURSIVE Pow2(_)
Pow2(n) == IF n = 0 THEN 1 ELSE 2 * Pow2(n - 1)

\* delayMs of the catch block after the failure of attempt `attempt`
DelayMs(failure, attempt) ==
    IF failure = "rateLimit" THEN RateLimitDelays[attempt]
    ELSE BaseDelay * Pow2(attempt - 1)

\* the number of instants over which the requests are followed, half an
\* interval apart
MaxInstants == 6

ThrottlePoints ==
    { InitDay * DayMs + k * (MIN_REQUEST_INTERVAL \div 2) : k \in 0..MaxInstants }

\* The head of the loop body of withRetry for call c: when the last request
\* is less than MIN_REQUEST_INTERVAL old the call waits for the rest of the
\* interval; otherwise it sets lastRequestTime and sends its request.
BeginAttempt(c, attempt, now) ==
    LET timeSinceLastRequest == now - http.lastRequestTime
    IN  IF timeSinceLastRequest < MIN_REQUEST_INTERVAL
        THEN http' = [http EXCEPT !.calls[c] =
                         [pc |-> "throttle", attempt |-> attempt,
                          wakeAt |-> now + (MIN_REQUEST_INTERVAL
                                            - timeSinceLastRequest)]]
        ELSE http' = [lastRequestTime |-> now,
                      calls |-> [http.calls EXCEPT ![c] =
                         [pc |-> "request", attempt |-> attempt, wakeAt |-> 0]]]

\* everything but the clock and the AI module
provider == <<store, lastScheduleCheck, prompts, isInitialized, loadPc, pass,
              hist, started, saveTimer, ui, status, reloadPc, call>>

\* fetchAiResponseWithSources is called (by a scheduled execution or by an
\* immediate addPrompt): withRetry starts its first attempt
CallWithRetry(c) ==
    /\ http.calls[c].pc = "idle"
    /\ \A d \in CallIds : d < c => http.calls[d].pc # "idle"
    /\ BeginAttempt(c, 1, clock)
    /\ UNCHANGED <<clock, provider>>

\* await delay(waitTime) is over: lastRequestTime = Date.now(), the request
\* is sent
ThrottleElapsed(c) ==
    /\ http.calls[c].pc = "throttle"
    /\ http.calls[c].wakeAt = clock
    /\ http' = [lastRequestTime |-> clock,
                calls |-> [http.calls EXCEPT ![c].pc = "request",
                                             ![c].wakeAt = 0]]
    /\ UNCHANGED <<clock, provider>>

\* the request of call c succeeds: withRetry returns
RequestSucceeds(c) ==
    /\ http.calls[c].pc = "request"
    /\ http' = [http EXCEPT !.calls[c] = IdleCall]
    /\ UNCHANGED <<clock, provider>>

\* the request of call c fails: withRetry throws on a definitive error and
\* after the last attempt, otherwise it waits delayMs
RequestFails(c, failure) ==
    /\ http.calls[c].pc = "request"
    /\ LET attempt == http.calls[c].attempt
       IN  IF failure = "definitive" \/ attempt = MaxRetries
           THEN http' = [http EXCEPT !.calls[c] = IdleCall]
           ELSE http' = [http EXCEPT !.calls[c] =
                            [pc |-> "backoff", attempt |-> attempt,
                             wakeAt |-> clock + DelayMs(failure, attempt)]]
    /\ UNCHANGED <<clock, provider>>

\* await delay(delayMs) is over: the next attempt begins
BackoffElapsed(c) ==
    /\ http.calls[c].pc = "backoff"
    /\ http.calls[c].wakeAt = clock
    /\ BeginAttempt(c, http.calls[c].attempt + 1, clock)
    /\ UNCHANGED <<clock, provider>>

\* time passes to the next instant; the timeouts that are due have fired
ThrottleTick ==
    /\ \A c \in CallIds :
          http.calls[c].pc \in {"throttle", "backoff"}
              => http.calls[c].wakeAt > clock
    /\ TickTo(ThrottlePoints)

InitThrottle ==
    /\ clock = InitDay * DayMs
    /\ store = <<>>
    /\ lastScheduleCheck = NoLastCheck
    /\ prompts = <<>>
    /\ isInitialized = FALSE
    /\ loadPc = "start"
    /\ pass = [x \in PassIds |-> IdlePass]
    /\ hist = [x \in PassIds |-> NoHist]
    /\ started = {}
    /\ saveTimer = "idle"
    /\ ui = NoUi
    /\ status = InitStatus
    /\ reloadPc = "none"
    /\ call = NoCall
    /\ http = IdleHttp

NextThrottle ==
    \/ \E c \in CallIds : CallWithRetry(c)
    \/ \E c \in CallIds : ThrottleElapsed(c)
    \/ \E c \in CallIds : RequestSucceeds(c)
    \/ \E c \in CallIds, failure \in RequestFailures : RequestFails(c, failure)
    \/ \E c \in CallIds : BackoffElapsed(c)
    \/ ThrottleTick

SpecThrottle == InitThrottle /\ [][NextThrottle]_vars

----------------------------------------------------------------------------
(* A prompt scheduled at the end of the day, followed over several days *)

\* a schedule one minute before midnight
LateTimes == {<<23, 59>>}

\* the instants told apart around that time; the last one falls on the
\* next calendar day
LateOffsets ==
    UNION { LET t == hm[1] * HourMs + hm[2] * MinuteMs
            IN  {t - MinuteMs, t, t + GraceMs, t + GraceMs + 1, t + HourMs}
            : hm \in LateTimes }

LateClockPoints ==
    { d * DayMs + o : d \in InitDay..(MaxDay + 1), o \in LateOffsets }

\* the stored prompts, scheduled at the late time
LatePrompts ==
    { [p EXCEPT !.scheduled.hour = hm[1], !.scheduled.minute = hm[2]] :
          p \in StoredPrompts(1), hm \in LateTimes }

InitDays ==
    /\ clock \in LateClockPoints /\ ToDateString(clock) = InitDay
    /\ store \in { <<p>> : p \in LatePrompts }
    /\ lastScheduleCheck \in {NoLastCheck, PreviousRun}
    /\ prompts = <<>>
    /\ isInitialized = FALSE
    /\ loadPc = "start"
    /\ pass = [x \in PassIds |-> IdlePass]
    /\ hist = [x \in PassIds |-> NoHist]
    /\ started = {}
    /\ saveTimer = "idle"
    /\ ui = NoUi
    /\ status = InitStatus
    /\ reloadPc = "none"
    /\ call = NoCall
    /\ http = IdleHttp

\* the calls of checkMissedScheduledPrompts follow one another, as in
\* SpecSolo
NextDays ==
    \/ \E x \in PassIds : SaveSettled /\ NoPassInFlight /\ LoadPrompts(x)
    \/ \E x \in PassIds : SaveSettled /\ LoadFinish(x)
    \/ \E x \in PassIds : SaveSettled /\ NoPassInFlight /\ StartPass(x)
    \/ \E x \in PassIds : SaveSettled /\ SelectMissed(x)
    \/ \E x \in PassIds, o \in AiOutcomes :
            SaveSettled /\ FetchResolve(x, o)
    \/ \E x \in PassIds : SaveSettled /\ DelayElapsed(x)
    \/ SaveFires
    \/ SaveSettled /\ TickTo(LateClockPoints)

SpecDays == InitDays /\ [][NextDays]_vars

----------------------------------------------------------------------------
(* The operations of the screens: addPrompt, removePrompt, clearPrompts,    *)
(* updatePrompt                                                             *)

\* the number of prompts up to which prompts are added
MaxPrompts == 2

\* the number of operations the user starts in a session
MaxOperations == 2

\* the hours and minutes the time picker of the edit modal is set to
EditTimes == SchedTimes \cup {<<13, 0>>}

\* the categories the edit modal is set to
EditCategories == {"other", "tech"}

\* id: Date.now().toString()
NewId(now) == now

\* an addPrompt that fires the scheduled prompt it adds: the prompt is
\* appended in progress and its query is issued at once
AddScheduledFiring(hm, rec) ==
    /\ Len(prompts) < MaxPrompts
    /\ ui.operations < MaxOperations
    /\ prompts' = Append(prompts,
           [id |-> clock, response |-> GENERATING_RESPONSE,
            source |-> "En cours", updatedAt |-> ToISOString(clock),
            category |-> CategoryOrOther(Undefined),
            scheduled |-> Schedule(hm, NoLastRun,
                                   IF OrTrue(rec) THEN "true" ELSE "false")])
    /\ ui' = [ui EXCEPT !.adding = Append(@, clock), !.operations = @ + 1]
    /\ status' = [status EXCEPT !.error = Null]
    /\ SaveEffect
    /\ UNCHANGED <<clock, store, lastScheduleCheck, isInitialized, loadPc,
                   pass, hist, started, http>>
    /\ UNCHANGED reloadPc

\* addPrompt(question, {hour, minute, isRecurring}): the new prompt waits
\* for its time with an empty response
AddScheduled(hm, rec) ==
    /\ Len(prompts) < MaxPrompts
    /\ ui.operations < MaxOperations
    /\ prompts' = Append(prompts,
           [id |-> NewId(clock), response |-> "", source |-> SOURCE_PLANIFIE,
            updatedAt |-> ToISOString(clock),
            category |-> CategoryOrOther(Undefined),
            scheduled |-> Schedule(hm, NoLastRun,
                                   IF OrTrue(rec) THEN "true" ELSE "false")])
    /\ ui' = [ui EXCEPT !.operations = @ + 1]
    /\ SaveEffect
    /\ UNCHANGED <<clock, store, lastScheduleCheck, isInitialized, loadPc,
                   pass, hist, started>>
    /\ status' = [status EXCEPT !.error = Null]
    /\ UNCHANGED http
    /\ UNCHANGED reloadPc

\* addPrompt(question) up to the await of fetchAiResponseWithSources: the
\* loading prompt is appended and the query is issued
AddImmediate ==
    /\ Len(prompts) < MaxPrompts
    /\ ui.operations < MaxOperations
    /\ prompts' = Append(prompts,
           [id |-> NewId(clock), response |-> GENERATING_RESPONSE,
            source |-> "En cours", updatedAt |-> ToISOString(clock),
            category |-> CategoryOrOther(Undefined),
            scheduled |-> NoSchedule])
    /\ ui' = [ui EXCEPT !.adding = Append(@, NewId(clock)),
                     !.operations = @ + 1]
    /\ SaveEffect
    /\ UNCHANGED <<clock, store, lastScheduleCheck, isInitialized, loadPc,
                   pass, hist, started>>
    /\ status' = [status EXCEPT !.error = Null]
    /\ UNCHANGED http
    /\ UNCHANGED reloadPc

\* the sequence without its k-th element
RemoveAt(seq, k) == SubSeq(seq, 1, k - 1) \o SubSeq(seq, k + 1, Len(seq))

\* the query of the k-th waiting addPrompt resolves with outcome o: the
\* result is written to the prompts that have the id of the loading prompt
AddResolve(k, o) ==
    /\ k \in DOMAIN ui.adding
    /\ prompts' = [i \in DOMAIN prompts |->
                      IF prompts[i].id = ui.adding[k]
                      THEN [prompts[i] EXCEPT
                               !.response = AiResult(o).response,
                               !.source = AiResult(o).sourcesFormatted,
                               !.updatedAt = ToISOString(clock)]
                      ELSE prompts[i]]
    /\ ui' = [ui EXCEPT !.adding = RemoveAt(@, k)]
    /\ SaveEffect
    /\ UNCHANGED <<clock, store, lastScheduleCheck, isInitialized, loadPc,
                   pass, hist, started>>
    /\ UNCHANGED status
    /\ UNCHANGED <<call, http>>
    /\ UNCHANGED reloadPc

\* removePrompt(id): prev.filter((p) => p.id !== id)
RemovePrompt(id) ==
    /\ \E i \in DOMAIN prompts : prompts[i].id = id
    /\ ui.operations < MaxOperations
    /\ prompts' = SelectSeq(prompts, LAMBDA p : p.id # id)
    /\ ui' = [ui EXCEPT !.operations = @ + 1]
    /\ SaveEffect
    /\ UNCHANGED <<clock, store, lastScheduleCheck, isInitialized, loadPc,
                   pass, hist, started>>
    /\ UNCHANGED status
    /\ UNCHANGED <<call, http>>
    /\ UNCHANGED reloadPc

\* The trash button shows the confirmation dialog. Its "Vider" button holds
\* the clearPrompts of the render in which the dialog was opened, and that
\* callback holds the `prompts` of that render.
OpenClearDialog ==
    /\ ~ui.dialogOpen
    /\ ui.operations < MaxOperations
    /\ ui' = [ui EXCEPT !.dialogOpen = TRUE, !.dialogPrompts = prompts,
                     !.operations = @ + 1]
    /\ UNCHANGED <<clock, store, lastScheduleCheck, prompts, isInitialized,
                   loadPc, pass, hist, started, saveTimer>>
    /\ UNCHANGED status
    /\ UNCHANGED <<call, http>>
    /\ UNCHANGED reloadPc

\* "Annuler"
CancelClear ==
    /\ ui.dialogOpen
    /\ ui' = [ui EXCEPT !.dialogOpen = FALSE, !.dialogPrompts = <<>>]
    /\ UNCHANGED <<clock, store, lastScheduleCheck, prompts, isInitialized,
                   loadPc, pass, hist, started, saveTimer>>
    /\ UNCHANGED status
    /\ UNCHANGED <<call, http>>
    /\ UNCHANGED reloadPc

\* clearPrompts as called with closurePrompts for its `prompts`:
\* setPrompts(scheduledPrompts) and savePrompts(scheduledPrompts)
ClearPrompts(closurePrompts) ==
    LET scheduledPrompts == SelectSeq(closurePrompts, IsScheduled)
    IN  /\ prompts' = scheduledPrompts
        /\ store' = scheduledPrompts
        /\ SaveEffect
        /\ status' = [status EXCEPT !.error = Null]

\* "Vider": the clearPrompts held by the dialog runs
ConfirmClear ==
    /\ ui.dialogOpen
    /\ ClearPrompts(ui.dialogPrompts)
    /\ ui' = [ui EXCEPT !.dialogOpen = FALSE, !.dialogPrompts = <<>>]
    /\ UNCHANGED <<clock, lastScheduleCheck, isInitialized, loadPc, pass,
                   hist, started>>
    /\ UNCHANGED <<call, http>>
    /\ UNCHANGED reloadPc

\* startEditing(prompt): the modal keeps the prompt object of the list as
\* it is when the modal opens
StartEditing(id) ==
    /\ ui.editingPrompt = NoEdit
    /\ \E i \in DOMAIN prompts : prompts[i].id = id
    /\ ui.operations < MaxOperations
    /\ ui' = [ui EXCEPT !.editingPrompt = Find(prompts, id),
                     !.operations = @ + 1]
    /\ UNCHANGED <<clock, store, lastScheduleCheck, prompts, isInitialized,
                   loadPc, pass, hist, started, saveTimer>>
    /\ UNCHANGED status
    /\ UNCHANGED <<call, http>>
    /\ UNCHANGED reloadPc

\* the updates object of saveEdit: updatedAt, category and, for a scheduled
\* prompt, {...editingPrompt.scheduled, hour, minute, isRecurring}
EditUpdates(editingPrompt, hm, rec, cat, now) ==
    [updatedAt |-> ToISOString(now),
     category |-> cat,
     scheduled |-> IF IsScheduled(editingPrompt)
                   THEN [editingPrompt.scheduled EXCEPT
                            !.hour = hm[1], !.minute = hm[2],
                            !.isRecurring = rec]
                   ELSE NoSchedule]

\* updatePrompt(id, updates): {...p, ...updates} for the prompts with this
\* id; updates carries `scheduled` only for a scheduled prompt
UpdatePrompt(ps, id, updates) ==
    [i \in DOMAIN ps |->
        IF ps[i].id = id
        THEN [ps[i] EXCEPT !.updatedAt = updates.updatedAt,
                           !.category = updates.category,
                           !.scheduled = IF updates.scheduled = NoSchedule
                                         THEN @ ELSE updates.scheduled]
        ELSE ps[i]]

\* saveEdit with the time picker at hm, the recurrence switch at rec and the
\* category at cat
SaveEdit(hm, rec, cat) ==
    /\ ui.editingPrompt # NoEdit
    /\ prompts' = UpdatePrompt(prompts, ui.editingPrompt.id,
                      EditUpdates(ui.editingPrompt, hm, rec, cat, clock))
    /\ ui' = [ui EXCEPT !.editingPrompt = NoEdit]
    /\ SaveEffect
    /\ UNCHANGED <<clock, store, lastScheduleCheck, isInitialized, loadPc,
                   pass, hist, started>>
    /\ UNCHANGED status
    /\ UNCHANGED <<call, http>>
    /\ UNCHANGED reloadPc

\* the questions addPrompt is called with, as sequences of characters:
\* empty, blanks only, text, text between blanks
Questions ==
    { <<>>, <<" ">>, <<" ", " ">>, <<"q">>, <<" ", "q">>, <<"q", " ">> }

\* String.prototype.trimStart and trimEnd
RECURSIVE TrimStart(_)
TrimStart(q) ==
    IF q # <<>> /\ Head(q) = " " THEN TrimStart(Tail(q)) ELSE q

RECURSIVE TrimEnd(_)
TrimEnd(q) ==
    IF q # <<>> /\ q[Len(q)] = " " THEN TrimEnd(SubSeq(q, 1, Len(q) - 1))
    ELSE q

\* a trim that removes nothing
TrimNothing(q) == q

\* question.trim()
Trim(q) == TrimEnd(TrimStart(q))

EMPTY_PROMPT_ERROR == "Le prompt ne peut pas etre vide"

\* addPrompt called without options
NoOptions == [none |-> TRUE]

\* the options addPrompt is called with: none, or hour, minute and
\* isRecurring (a boolean or absent)
AddOptions ==
    {NoOptions} \cup
    { [hour |-> hm[1], minute |-> hm[2], isRecurring |-> rec] :
          hm \in SchedTimes, rec \in {"true", "false", Undefined} }

\* if (!question.trim()) { setError(...); return; }
AddRejected ==
    /\ status' = [status EXCEPT !.error = EMPTY_PROMPT_ERROR]
    /\ UNCHANGED <<clock, store, lastScheduleCheck, prompts, isInitialized,
                   loadPc, pass, hist, started, saveTimer, ui, http>>
    /\ UNCHANGED reloadPc

\* addPrompt(question, options), up to its first await
AddPrompt(question, options) ==
    /\ call.count < MaxOperations
    /\ call' = [question |-> question, count |-> call.count + 1]
    /\ IF Trim(question) = <<>> THEN AddRejected
       ELSE IF options = NoOptions THEN AddImmediate
       ELSE AddScheduled(<<options.hour, options.minute>>,
                         options.isRecurring)

\* the ids of the prompts of a collection
Ids(ps) == { ps[i].id : i \in DOMAIN ps }

\* the settings with which the edit modal is saved
EditInputs ==
    { <<hm, rec, cat>> \in EditTimes \X {"true", "false"} \X EditCategories :
          (hm \in SchedTimes) = (cat = "other") }

\* The confirmation dialog and the edit modal are modal: while one of them
\* is shown the other controls of the screens are out of reach.
NothingShown == ~ui.dialogOpen /\ ui.editingPrompt = NoEdit

\* The program with its screens in use once the startup has finished,
\* started over a stored collection of at most one prompt; the calls of
\* checkMissedScheduledPrompts follow one another.
Started == loadPc = "done"

NextEdit ==
    \/ \E x \in PassIds : SaveSettled /\ NoPassInFlight /\ LoadPrompts(x)
    \/ \E x \in PassIds : SaveSettled /\ LoadFinish(x)
    \/ \E x \in PassIds : SaveSettled /\ NoPassInFlight /\ StartPass(x)
    \/ \E x \in PassIds : SaveSettled /\ SelectMissed(x)
    \/ \E x \in PassIds, o \in SampledOutcomes :
            SaveSettled /\ FetchResolve(x, o)
    \/ \E x \in PassIds : SaveSettled /\ DelayElapsed(x)
    \/ SaveFires
    \/ SaveSettled /\ Tick
    \/ \E hm \in SchedTimes, rec \in {"true", "false", Undefined} :
            /\ SaveSettled /\ Started /\ NothingShown /\ AddScheduled(hm, rec)
            /\ UNCHANGED call
    \/ SaveSettled /\ Started /\ NothingShown /\ AddImmediate /\ UNCHANGED call
    \/ \E k \in 1..MaxPrompts, o \in SampledOutcomes :
            SaveSettled /\ AddResolve(k, o)
    \/ \E id \in Ids(prompts) :
            SaveSettled /\ Started /\ NothingShown /\ RemovePrompt(id)
    \/ SaveSettled /\ Started /\ NothingShown /\ OpenClearDialog
    \/ SaveSettled /\ CancelClear
    \/ SaveSettled /\ ConfirmClear
    \/ \E id \in Ids(prompts) :
            SaveSettled /\ Started /\ NothingShown /\ StartEditing(id)
    \/ \E e \in EditInputs : SaveSettled /\ SaveEdit(e[1], e[2], e[3])

SpecEdit == InitSingle /\ [][NextEdit]_vars

\* the instants at which prompts are added and passes run: a minute before
\* the scheduled time and just after its grace
AddClockPoints ==
    { d * DayMs + hm[1] * HourMs + hm[2] * MinuteMs + o :
          d \in InitDay..MaxDay, hm \in SchedTimes,
          o \in {0 - MinuteMs, GraceMs + 1} }

\* The program with prompts being added once the startup has finished; the calls of checkMissedScheduledPrompts follow one another.
NextAdd ==
    \/ \E x \in PassIds : SaveSettled /\ NoPassInFlight /\ LoadPrompts(x)
    \/ \E x \in PassIds : SaveSettled /\ LoadFinish(x)
    \/ \E x \in PassIds : SaveSettled /\ NoPassInFlight /\ StartPass(x)
    \/ \E x \in PassIds : SaveSettled /\ SelectMissed(x)
    \/ \E x \in PassIds, o \in SampledOutcomes :
            SaveSettled /\ FetchResolve(x, o)
    \/ \E x \in PassIds : SaveSettled /\ DelayElapsed(x)
    \/ SaveFires
    \/ SaveSettled /\ TickTo(AddClockPoints)
    \/ \E q \in Questions, options \in AddOptions :
            SaveSettled /\ Started /\ AddPrompt(q, options)
    \/ \E k \in 1..MaxPrompts, o \in SampledOutcomes :
            SaveSettled /\ AddResolve(k, o)

\* a first launch: nothing stored yet
InitAdd ==
    /\ Init
    /\ clock \in AddClockPoints
    /\ store = <<>>
    /\ lastScheduleCheck = NoLastCheck

SpecAdd == InitAdd /\ [][NextAdd]_vars

----------------------------------------------------------------------------
(* Steps and states the properties speak about *)

\* the step in which pass x computes missedPrompts from its snapshot
Selects(x) == pass[x].pc = "getLastCheck" /\ pass'[x].pc # "getLastCheck"

\* the step in which pass x issues an AI query
StartsQuery(x) == pass[x].pc # "fetching" /\ pass'[x].pc = "fetching"

\* the step in which pass x returns to its caller
Returns(x) == IsActive(x) /\ ~IsActive(x)'

\* the ids of the prompts whose query a pass has started
ExecutedIds(x) == { e[1] : e \in hist[x].executed }

\* the scheduled time of a prompt, in milliseconds after local midnight
TimeOfDay(p) == p.scheduled.hour * HourMs + p.scheduled.minute * MinuteMs

\* the milliseconds from the scheduled time of a prompt today to the clock
SinceTime(p) == (clock % DayMs) - TimeOfDay(p)

\* lastRun is absent or falls on a day other than the one of the clock
NotRunToday(p) ==
    \/ p.scheduled.lastRun = NoLastRun
    \/ p.scheduled.lastRun[1] # clock \div DayMs

\* lastRun falls on the day of the clock
RunToday(p) ==
    /\ p.scheduled.lastRun # NoLastRun
    /\ p.scheduled.lastRun[1] = clock \div DayMs

\* the values of `source` that mark an error
ErrorSources ==
    {"Erreur d'authentification", "Rate limit", "Timeout", "Erreur serveur",
     "Erreur inconnue", "Erreur"}

\* the responses with which a failed query leaves the prompt
FailureResponses == { AiResult(o).response : o \in AiFailures }

\* the step in which the "Vider" button of the dialog runs clearPrompts
Clears == ui.dialogOpen /\ ~ui'.dialogOpen /\ saveTimer' = "armed"

\* the step in which saveEdit calls updatePrompt
Edits == ui.editingPrompt # NoEdit /\ ui'.editingPrompt = NoEdit

\* the responses with which a query that has resolved leaves the prompt
CompletedResponses == { AiResult(o).response : o \in AiOutcomes }

\* the last attempt of a prompt has resolved and is dated on a day before
\* the one of the clock
AttemptedEarlierDay(p) ==
    /\ p.scheduled.lastRun # NoLastRun
    /\ p.scheduled.lastRun[1] < clock \div DayMs
    /\ p.response \in CompletedResponses

\* the step in which addPrompt appends a scheduled prompt
AddsScheduled ==
    /\ Len(prompts') = Len(prompts) + 1
    /\ IsScheduled(prompts'[Len(prompts')])

\* a question that is empty or made of blanks only
IsBlank(q) == \A i \in DOMAIN q : q[i] = " "

\* the step in which addPrompt is called
CallsAddPrompt == call'.count = call.count + 1

\* the step in which the query that pass x awaits resolves
Resolves(x) == pass[x].pc = "fetching" /\ pass'[x].pc = "delay"

\* the step in which a loadPromptsAndCheckMissed puts the stored prompts in
\* the collection
Loads ==
    \/ loadPc = "start" /\ loadPc' = "recon"
    \/ reloadPc = "start" /\ reloadPc' = "recon"

\* the values the stored lastScheduleCheck can have at a cold start: absent,
\* the previous session, the first instant, this very instant
LastCheckValues(now) ==
    {NoLastCheck, PreviousRun, ToISOString(EpochDay * DayMs), ToISOString(now)}

\* the ids of the prompts of a queue
QueueIds(queue) == { queue[k].id : k \in DOMAIN queue }

\* the step in which call c sends an HTTP request
Sends(c) == http.calls[c].pc # "request" /\ http'.calls[c].pc = "request"

----------------------------------------------------------------------------
(* The session with its screens in use, while the process stays alive *)

\* One stored recurring prompt that the previous session left at rest (no
\* execution was in flight when it ended).
InitLive ==
    /\ InitSingle
    /\ Len(store) = 1
    /\ store[1].response # RUNNING_RESPONSE
    /\ store[1].scheduled.isRecurring = "true"
    /\ lastScheduleCheck = PreviousRun

\* What the runtime guarantees while the process is alive: a promise that
\* can resolve does (AsyncStorage, the AI call, which has a timeout), a
\* timeout that is due fires (the 2 s delay, the debounced save), and the
\* 60 s interval keeps calling checkAndRunScheduledPrompts.
Liveness ==
    /\ WF_vars(\E x \in PassIds : SaveSettled /\ NoPassInFlight /\ LoadPrompts(x))
    /\ WF_vars(\E x \in PassIds : SaveSettled /\ LoadFinish(x))
    /\ WF_vars(\E x \in PassIds : SaveSettled /\ NoPassInFlight /\ StartPass(x))
    /\ WF_vars(\E x \in PassIds : SaveSettled /\ SelectMissed(x))
    /\ WF_vars(\E x \in PassIds, o \in SampledOutcomes :
                   SaveSettled /\ FetchResolve(x, o))
    /\ WF_vars(\E x \in PassIds : SaveSettled /\ DelayElapsed(x))
    /\ WF_vars(SaveFires)
    /\ WF_vars(\E k \in 1..MaxPrompts, o \in SampledOutcomes :
                   SaveSettled /\ AddResolve(k, o))

SpecLive == InitLive /\ [][NextEdit]_vars /\ Liveness

\* the prompt `id` of the collection shows the sentinel of a scheduled
\* execution in progress
IsRunning(id) ==
    \E i \in DOMAIN prompts :
        prompts[i].id = id /\ prompts[i].response = RUNNING_RESPONSE

----------------------------------------------------------------------------
(* Properties *)

\* C1: once the AI query of a recurring prompt has been started on a calendar
\* day, a due-check pass invoked after that starts no AI query for that
\* prompt on that day, whatever else is in flight.
C1_NoQueryByLaterPass ==
    \A x \in PassIds : hist[x].executed \cap hist[x].seen = {}

\* a pass is called an hour after the prompt was executed and answered, on
\* the same day, and is about to make its selection
C1_Witness ==
    \E x \in PassIds : \E i \in DOMAIN pass[x].promptsToCheck :
        LET p == pass[x].promptsToCheck[i]
        IN  /\ pass[x].pc = "getLastCheck"
            /\ <<p.id, Today>> \in hist[x].seen
            /\ p.response = "answer"
            /\ RunToday(p)
            /\ SinceTime(p) = HourMs
            /\ p.scheduled.lastRun # ToISOString(clock)

\* C2: two due-check passes that overlap never both start the AI query of
\* the same prompt on the same day.
C2_OverlappingPassesDisjoint ==
    \A x, y \in PassIds :
        x # y => hist[x].executed \cap hist[y].executed = {}

\* C3: a pass never selects a non-recurring scheduled prompt whose lastRun
\* is set, whatever the day and the time of the pass.
C3_NonRecurringRunNeverSelected ==
    [][\A x \in PassIds : Selects(x) =>
          \A i \in DOMAIN pass[x].promptsToCheck :
              LET p == pass[x].promptsToCheck[i]
              IN  (/\ IsScheduled(p)
                   /\ p.scheduled.isRecurring = "false"
                   /\ p.scheduled.lastRun # NoLastRun)
                  => p.id \notin hist'[x].selected]_vars

\* a pass has made its selection, more than the grace after the time of a
\* non-recurring prompt that ran on an earlier day and is not in progress,
\* and executes another prompt
C3_Witness ==
    \E x \in PassIds : \E i \in DOMAIN prompts :
        /\ pass[x].pc = "fetching"
        /\ prompts[i].id # pass[x].executing
        /\ prompts[i].scheduled.isRecurring = "false"
        /\ prompts[i].scheduled.lastRun = PreviousRun
        /\ prompts[i].response = "answer"
        /\ SinceTime(prompts[i]) > GraceMs

\* C4: a pass made after the time of a non-recurring scheduled prompt that
\* has no lastRun and is not in progress selects that prompt (the pass is
\* taken more than 10 s after the time, when every due prompt is selected).
C4_NonRecurringFiresOnce ==
    [][\A x \in PassIds : Selects(x) =>
          \A i \in DOMAIN pass[x].promptsToCheck :
              LET p == pass[x].promptsToCheck[i]
              IN  (/\ IsScheduled(p)
                   /\ p.scheduled.isRecurring = "false"
                   /\ p.scheduled.lastRun = NoLastRun
                   /\ p.response = ""
                   /\ SinceTime(p) > GraceMs)
                  => p.id \in hist'[x].selected]_vars

C6_SecondRunStartsNoQuery ==
    [][\A x \in PassIds : StartsQuery(x) =>
          NotRunToday(Find(prompts, pass'[x].executing))]_vars

\* a second pass is called, with no time elapsed, over a collection in which
\* an earlier pass has executed a prompt whose time is more than the grace
\* in the past
C6_Witness ==
    \E x \in PassIds : \E i \in DOMAIN pass[x].promptsToCheck :
        LET p == pass[x].promptsToCheck[i]
        IN  /\ pass[x].pc = "getLastCheck"
            /\ <<p.id, Today>> \in hist[x].seen
            /\ p.scheduled.lastRun = ToISOString(clock)
            /\ ~StartsWithHourglass(p.response)
            /\ SinceTime(p) > GraceMs

\* C7: for as long as a pass awaits the AI query of a prompt, the collection
\* shows that prompt with the in-progress sentinel as response and with a
\* lastRun.
C7_RunningDuringQuery ==
    \A x \in PassIds :
        pass[x].pc = "fetching" =>
            LET p == Find(prompts, pass[x].executing)
            IN  /\ p.response = RUNNING_RESPONSE
                /\ p.scheduled.lastRun # NoLastRun

\* C8: when the AI query of a scheduled execution comes back as a failure
\* (auth, rate limit, timeout, 5xx, empty payload) the prompt is left with an
\* error sentinel as source and a lastRun of the day; and no AI query is
\* started for a prompt that the collection shows as failed today.
C8_FailureConsumesPeriod ==
    [][\A x \in PassIds :
          /\ (/\ pass[x].pc = "fetching"
              /\ pass'[x].pc = "delay"
              /\ pass[x].executing \in hist'[x].failed)
             => LET p == Find(prompts', pass[x].executing)
                IN  /\ p.source \in ErrorSources
                    /\ p.scheduled.lastRun # NoLastRun
                    /\ p.scheduled.lastRun[1] = clock \div DayMs
          /\ StartsQuery(x)
             => LET p == Find(prompts, pass'[x].executing)
                IN  ~(p.response \in FailureResponses /\ RunToday(p))]_vars

\* C9: a pass in which the query of a prompt failed returns only after it
\* has started the query of every prompt it selected.
C9_FailureDoesNotAbortPass ==
    [][\A x \in PassIds :
          (Returns(x) /\ hist[x].failed # {})
              => hist[x].selected \subseteq ExecutedIds(x)]_vars

\* a pass that selected two prompts has executed both, the query of the
\* first having failed, and is about to return
C9_Witness ==
    \E x \in PassIds : \E a, b \in hist[x].selected :
        /\ pass[x].pc = "delay"
        /\ pass[x].missedPrompts = <<>>
        /\ a < b
        /\ a \in hist[x].failed
        /\ b \notin hist[x].failed
        /\ {a, b} \subseteq ExecutedIds(x)

\* C10: the startup reconciliation, made more than 10 s after the time of a
\* persisted recurring prompt whose lastRun is absent or earlier than today,
\* selects that prompt, whether or not lastScheduleCheck is in the store.
C10_StartupRecoversMissed ==
    [][\A x \in PassIds : (Selects(x) /\ pass[x].caller = "load") =>
          \A i \in DOMAIN pass[x].promptsToCheck :
              LET p == pass[x].promptsToCheck[i]
              IN  (/\ IsScheduled(p)
                   /\ p.scheduled.isRecurring # "false"
                   /\ NotRunToday(p)
                   /\ SinceTime(p) > GraceMs)
                  => p.id \in hist'[x].selected]_vars

\* C12: once the stored prompts have been loaded, whenever the collection
\* in memory differs from what the store holds, a save is pending (it is
\* made within 500 ms).
C12_UnsavedImpliesSavePending ==
    (loadPc # "start" /\ prompts # Migrate(store)) => saveTimer = "armed"

\* C13: the startup reconciliation of a session starts no AI query for a
\* prompt whose query was started on the same day in an earlier session,
\* that session having been killed only after it had settled.
C13_NoQueryAfterRestart ==
    \A x \in PassIds :
        pass[x].caller = "load" => hist[x].executed \cap hist[x].seen = {}

\* C14: a pass issues the AI query of a prompt only when it has no query in
\* flight, and only from its selection or when its 2 s delay elapses.
C14_OneQueryAtATime ==
    [][\A x \in PassIds :
          (pass'[x].executing # 0 /\ pass'[x].executing # pass[x].executing)
              => (/\ pass[x].executing = 0
                  /\ pass[x].pc \in {"getLastCheck", "delay"})]_vars

\* a pass awaits the query of its second prompt, the query of the first one
\* having resolved
C14_Witness ==
    \E x \in PassIds : \E a \in ExecutedIds(x) :
        /\ pass[x].pc = "fetching"
        /\ a # pass[x].executing
        /\ ~StartsWithHourglass(Find(prompts, a).response)
        /\ Find(prompts, pass[x].executing).response = RUNNING_RESPONSE

\* C16: while the startup reconciliation is running, no call made by
\* checkAndRunScheduledPrompts (timer, mount, refresh) is evaluating the
\* loaded collection.
C16_NoTickDuringReconciliation ==
    \A x, y \in PassIds :
        (pass[x].caller = "load" /\ IsActive(x))
            => ~(/\ pass[y].caller = "tick"
                 /\ pass[y].pc = "getLastCheck"
                 /\ pass[y].promptsToCheck # <<>>)

\* C17: after a restart, a recurring prompt that the store shows in progress
\* (sentinel response and optimistic lastRun persisted before the process
\* was killed) is not selected by the startup reconciliation on the day of
\* that lastRun, and is selected by it on a later day once its time is
\* more than 10 s in the past.
C17_CrashSkipsOnlyThatPeriod ==
    [][\A x \in PassIds : (Selects(x) /\ pass[x].caller = "load") =>
          \A i \in DOMAIN pass[x].promptsToCheck :
              LET p == pass[x].promptsToCheck[i]
              IN  (/\ IsScheduled(p)
                   /\ p.scheduled.isRecurring # "false"
                   /\ p.response = RUNNING_RESPONSE
                   /\ p.scheduled.lastRun # NoLastRun)
                  => /\ RunToday(p) => p.id \notin hist'[x].selected
                     /\ (NotRunToday(p) /\ SinceTime(p) > GraceMs)
                            => p.id \in hist'[x].selected]_vars

\* C11: the step in which clearPrompts runs leaves in the collection exactly
\* the scheduled prompts it held, in their order and with every field as it
\* was.
C11_ClearKeepsScheduledAsTheyAre ==
    [][Clears => prompts' = SelectSeq(prompts, IsScheduled)]_vars

\* C19: the step in which saveEdit calls updatePrompt leaves the response
\* and the lastRun of the edited prompt as they were.
C19_EditKeepsLastRunAndResponse ==
    [][Edits =>
          \A i \in DOMAIN prompts :
              prompts[i].id = ui.editingPrompt.id
                  => /\ prompts'[i].response = prompts[i].response
                     /\ IsScheduled(prompts[i])
                            => prompts'[i].scheduled.lastRun
                                   = prompts[i].scheduled.lastRun]_vars

\* C20: the prompts of the collection have pairwise distinct ids.
C20_IdsUnique ==
    \A i, j \in DOMAIN prompts : i # j => prompts[i].id # prompts[j].id

C18_LateCompletionKeepsNextDay ==
    [][\A x \in PassIds : Selects(x) =>
          \A i \in DOMAIN pass[x].promptsToCheck :
              LET p == pass[x].promptsToCheck[i]
              IN  (/\ IsScheduled(p)
                   /\ p.scheduled.isRecurring # "false"
                   /\ p.response \in CompletedResponses
                   /\ <<p.id, Today - 1>> \in started
                   /\ <<p.id, Today>> \notin started
                   /\ SinceTime(p) > GraceMs)
                  => p.id \in hist'[x].selected]_vars

\* C21: the step in which addPrompt appends a scheduled prompt starts no AI
\* query (no pass moves, no addPrompt starts waiting for a query, no query
\* is recorded) and the prompt it appends has an empty response and no
\* lastRun; a query is only ever started for a scheduled prompt by a pass
\* that claims it.
C21_AddScheduledStartsNoQuery ==
    [][/\ AddsScheduled =>
            /\ started' = started
            /\ pass' = pass
            /\ ui'.adding = ui.adding
            /\ http' = http
            /\ SubSeq(prompts', 1, Len(prompts)) = prompts
            /\ prompts'[Len(prompts')].response = ""
            /\ prompts'[Len(prompts')].scheduled.lastRun = NoLastRun
       /\ started' # started =>
            \E x \in PassIds :
                /\ StartsQuery(x)
                /\ started' = started \cup {<<pass'[x].executing, Today>>}]_vars

\* a scheduled prompt added after its time of the day has passed waits with
\* an empty response, no query having been started for it
C21_Witness ==
    \E i \in DOMAIN prompts :
        /\ prompts[i].id \notin PromptIds
        /\ IsScheduled(prompts[i])
        /\ ParseDate(prompts[i].updatedAt) % DayMs > TimeOfDay(prompts[i]) + GraceMs
        /\ prompts[i].response = ""
        /\ prompts[i].scheduled.lastRun = NoLastRun
        /\ \A e \in started : e[1] # prompts[i].id

\* C24: a call of addPrompt with an empty or blank question leaves the
\* collection, the store, the pending save, the passes, the waiting
\* addPrompts and the recorded queries as they are, and sets the error.
C24_BlankQuestionRejected ==
    [][(CallsAddPrompt /\ IsBlank(call'.question)) =>
          /\ prompts' = prompts
          /\ store' = store
          /\ saveTimer' = saveTimer
          /\ pass' = pass
          /\ started' = started
          /\ ui' = ui
          /\ http' = http
          /\ status'.error = EMPTY_PROMPT_ERROR]_vars

\* addPrompt has been called with blanks only while the collection holds a
\* prompt, and the error is set
C24_Witness ==
    /\ call.count > 0
    /\ call.question # <<>>
    /\ IsBlank(call.question)
    /\ prompts # <<>>
    /\ status.error = EMPTY_PROMPT_ERROR

\* C25: when the query a pass awaits for prompt P resolves, the collection
\* keeps its prompts in place; P gets the response and the source of the
\* result (not the sentinel), updatedAt and lastRun at the instant of the
\* completion, and keeps its id, category, hour, minute and recurrence
\* flag; every other prompt is left as it is.
C25_ResolveWritesOnlyResult ==
    [][\A x \in PassIds : Resolves(x) =>
          /\ DOMAIN prompts' = DOMAIN prompts
          /\ \A i \in DOMAIN prompts :
                IF prompts[i].id = pass[x].executing
                THEN /\ \E o \in AiOutcomes :
                           /\ prompts'[i].response = AiResult(o).response
                           /\ prompts'[i].source = AiResult(o).sourcesFormatted
                     /\ ~StartsWithHourglass(prompts'[i].response)
                     /\ prompts'[i].updatedAt = ToISOString(clock)
                     /\ prompts'[i].scheduled.lastRun = ToISOString(clock)
                     /\ prompts'[i].id = prompts[i].id
                     /\ prompts'[i].category = prompts[i].category
                     /\ prompts'[i].scheduled.hour = prompts[i].scheduled.hour
                     /\ prompts'[i].scheduled.minute = prompts[i].scheduled.minute
                     /\ prompts'[i].scheduled.isRecurring
                            = prompts[i].scheduled.isRecurring
                ELSE prompts'[i] = prompts[i]]_vars

\* the query of one of two prompts has resolved with an answer at this
\* instant, the other prompt still waits for its first run
C25_Witness ==
    \E x \in PassIds : \E i, j \in DOMAIN prompts :
        /\ pass[x].pc = "delay"
        /\ i # j
        /\ prompts[i].response = "answer"
        /\ prompts[i].scheduled.lastRun = ToISOString(clock)
        /\ prompts[i].updatedAt = ToISOString(clock)
        /\ prompts[j].response = ""
        /\ prompts[j].scheduled.lastRun = NoLastRun
        /\ prompts[j].updatedAt = PreviousRun

\* C22: the step that loads the stored prompts puts each of them in the
\* collection, in place, with category "other" when the stored prompt has
\* none (absent or empty) and with its stored category otherwise, every
\* other field being as stored.
C22_LoadDefaultsCategory ==
    [][Loads =>
          /\ DOMAIN prompts' = DOMAIN store
          /\ \A i \in DOMAIN store :
                /\ prompts'[i].category =
                       IF store[i].category \in {Undefined, ""}
                       THEN "other" ELSE store[i].category
                /\ [prompts'[i] EXCEPT !.category = store[i].category]
                       = store[i]]_vars

\* a prompt stored with the category "tech" and one stored without category
\* have been loaded: the first kept it, the second is in "other"
C22_Witness ==
    /\ loadPc = "recon"
    /\ prompts # <<>>
    /\ \/ store[1].category = "tech" /\ prompts[1].category = "tech"
       \/ store[1].category = Undefined /\ prompts[1].category = "other"
    /\ store[1].response = prompts[1].response

\* C23: once the load has failed on a stored value that does not parse, the
\* collection is empty, the error is set, isLoading is false, the provider
\* is not initialised and no AI query has been started.
C23_CorruptStoreEndsEmpty ==
    loadPc = "failed" =>
        /\ prompts = <<>>
        /\ status.error = LOAD_ERROR
        /\ ~status.isLoading
        /\ ~isInitialized
        /\ started = {}
        /\ \A x \in PassIds : pass[x].executing = 0

\* the load has failed and a due-check pass has run over the empty
\* collection since
C23_Witness ==
    /\ loadPc = "failed"
    /\ store = CorruptStore
    /\ \E x \in PassIds : pass[x].pc = "getLastCheck" /\ pass[x].caller = "tick"

C28_OneReconciliationExecutes ==
    \A x, y \in PassIds :
        (pass[x].caller = "load" /\ pass[y].caller = "reload")
            => ExecutedIds(x) \cap ExecutedIds(y) = {}

\* C26: a request is sent only when the request before it, if there is one,
\* was sent at least MIN_REQUEST_INTERVAL earlier.
C26_RequestsSpacedApart ==
    [][\A c \in CallIds : Sends(c) =>
          \/ http.lastRequestTime = 0
          \/ clock - http.lastRequestTime >= MIN_REQUEST_INTERVAL]_vars

\* C29: a query is started only for a prompt that is in the collection: once
\* removePrompt(id) has removed a prompt, no pass starts a query for it.
C29_NoQueryForRemovedPrompt ==
    [][\A x \in PassIds : StartsQuery(x) =>
          pass'[x].executing \in Ids(prompts')]_vars

\* C30: no prompt stays RUNNING forever: again and again the prompt is not
\* showing the sentinel of an execution in progress.
C30_RunningEnds == \A id \in PromptIds : []<>~IsRunning(id)

====
